---- MODULE Spec2Model ----
(***************************************************************************)
(* Model of the e-Faktur PDF renamer (renamer.py).                         *)
(*                                                                         *)
(* A Python str is a sequence of one-character strings.  The full-width    *)
(* slash U+FF0F is the one-element token "U+FF0F".  Optional[str] is a     *)
(* sequence too: None is the one-element sequence <<"None">>, whose        *)
(* element is no character.                                                *)
(***************************************************************************)
EXTENDS Integers, Sequences, FiniteSets, TLC

VARIABLES
    pc,             \* position of the run that the specification explores
    file_storages,  \* process_files: the input list
    dry_run,        \* process_files: the dry_run argument
    pos,            \* process_files: number of records the for loop has done
    results,        \* process_files: results
    outputs,        \* process_files: outputs
    extracted,      \* the data handed to parse_pdf_fields so far, in order
    s_in,           \* _sanitize: the argument
    s_once,         \* _sanitize(s_in)
    s_twice,        \* _sanitize(_sanitize(s_in))
    nb_ref,         \* build_new_name: ref
    nb_seri,        \* build_new_name: seri
    nb_pretty,      \* build_new_name: pretty_slash
    nb_out,         \* build_new_name: the value returned
    pf_data,        \* parse_pdf_fields: file_bytes
    pf_out,         \* parse_pdf_fields: the pair returned
    pf_name         \* build_new_name(ref, seri, pretty_slash=True) of pf_out

vars ==
    <<pc, file_storages, dry_run, pos, results, outputs, extracted,
      s_in, s_once, s_twice, nb_ref, nb_seri, nb_pretty, nb_out,
      pf_data, pf_out, pf_name>>

-----------------------------------------------------------------------------
(* Bounds *)

MaxFiles == 3
MaxLen == 3
MaxFieldLen == 2
MaxTail == 2

-----------------------------------------------------------------------------
(* Characters and Python str primitives *)

None ==
    <<"None">>

FullwidthSlash ==
    "U+FF0F"

LowerAlpha ==
    <<"a", "b", "c", "d", "e", "f", "g", "h", "i", "j", "k", "l", "m",
      "n", "o", "p", "q", "r", "s", "t", "u", "v", "w", "x", "y", "z">>

UpperAlpha ==
    <<"A", "B", "C", "D", "E", "F", "G", "H", "I", "J", "K", "L", "M",
      "N", "O", "P", "Q", "R", "S", "T", "U", "V", "W", "X", "Y", "Z">>

DigitChars ==
    <<"0", "1", "2", "3", "4", "5", "6", "7", "8", "9">>

Range(f) ==
    {f[i] : i \in DOMAIN f}

\* \s of the re module, and what str.strip() strips
Whitespace ==
    {" ", "\t", "\n", "\r"}

\* \d
Digits ==
    Range(DigitChars)

IsDigit(c) ==
    c \in Digits

\* \w, which decides where \b holds
WordChars ==
    Range(LowerAlpha) \cup Range(UpperAlpha) \cup Range(DigitChars) \cup {"_"}

IsWordChar(c) ==
    c \in WordChars

\* str.upper() and str.lower(), character by character
ToUpper ==
    [c \in Range(LowerAlpha) |-> UpperAlpha[CHOOSE i \in 1..26 : LowerAlpha[i] = c]]

ToLower ==
    [c \in Range(UpperAlpha) |-> LowerAlpha[CHOOSE i \in 1..26 : UpperAlpha[i] = c]]

UpperChar(c) ==
    IF c \in DOMAIN ToUpper THEN ToUpper[c] ELSE c

LowerChar(c) ==
    IF c \in DOMAIN ToLower THEN ToLower[c] ELSE c

Upper(s) ==
    [i \in 1..Len(s) |-> UpperChar(s[i])]

Lower(s) ==
    [i \in 1..Len(s) |-> LowerChar(s[i])]

\* Python truthiness of an Optional[str]: None and "" are false
Truthy(v) ==
    v # None /\ v # <<>>

\* x or None
OrNone(v) ==
    IF Truthy(v) THEN v ELSE None

\* str.endswith
EndsWith(s, suffix) ==
    /\ Len(s) >= Len(suffix)
    /\ SubSeq(s, Len(s) - Len(suffix) + 1, Len(s)) = suffix

\* str.replace(old, new) for a one-character old
Replace(s, old, new) ==
    [i \in 1..Len(s) |-> IF s[i] = old THEN new ELSE s[i]]

\* str.replace(old, "") for a one-character old
Remove(s, old) ==
    SelectSeq(s, LAMBDA c : c # old)

\* str.strip()
Strip(s) ==
    LET keep == {i \in 1..Len(s) : s[i] \notin Whitespace}
    IN IF keep = {} THEN <<>>
       ELSE SubSeq(s, CHOOSE i \in keep : \A j \in keep : i <= j,
                      CHOOSE i \in keep : \A j \in keep : i >= j)

\* re.sub(r"\s+", " ", s): the first character of every whitespace run
\* becomes a space and the rest of the run goes
CollapseWhitespace(s) ==
    LET kept == SelectSeq([i \in 1..Len(s) |-> i],
                          LAMBDA i : \/ s[i] \notin Whitespace
                                     \/ i = 1
                                     \/ s[i - 1] \notin Whitespace)
    IN [k \in 1..Len(kept) |-> IF s[kept[k]] \in Whitespace THEN " " ELSE s[kept[k]]]

\* the number of whitespace characters of s from index i on, up to the first
\* other character: what a greedy \s* takes at i
WsRun(s, i) ==
    LET stops == {j \in i..Len(s) : s[j] \notin Whitespace}
    IN IF stops = {} THEN Len(s) + 1 - i
       ELSE (CHOOSE j \in stops : \A k \in stops : j <= k) - i

\* str(i) of a non-negative int
RECURSIVE Str(_)
Str(n) ==
    IF n < 10 THEN <<DigitChars[n + 1]>>
    ELSE Str(n \div 10) \o <<DigitChars[(n % 10) + 1]>>

-----------------------------------------------------------------------------
(* renamer.py: the helpers *)

IllegalChars ==
    {"\\", "/", ":", "*", "?", "\"", "<", ">", "|", "\r", "\n", "\t"}

_sanitize(s) ==
    LET s1 == Strip(s)
        s2 == [i \in 1..Len(s1) |-> IF s1[i] \in IllegalChars THEN " " ELSE s1[i]]
    IN CollapseWhitespace(s2)

\* re.sub(r"\s*/\s*", "/", s): every match is a "/" with the whitespace runs
\* on its two sides, so what goes is every whitespace character whose run
\* ends before a "/" or starts after one
TightenSlashes(s) ==
    LET next(i) == i + WsRun(s, i)
        prev(i) == CHOOSE j \in 0..(i - 1) :
                       /\ j = 0 \/ s[j] \notin Whitespace
                       /\ \A k \in (j + 1)..i : s[k] \in Whitespace
        kept == SelectSeq([i \in 1..Len(s) |-> i],
                          LAMBDA i : \/ s[i] \notin Whitespace
                                     \/ /\ ~(next(i) <= Len(s) /\ s[next(i)] = "/")
                                        /\ ~(prev(i) >= 1 /\ s[prev(i)] = "/"))
    IN [k \in 1..Len(kept) |-> s[kept[k]]]

_normalize_for_search(s) ==
    TightenSlashes(CollapseWhitespace(s))

_invoice_ref_to_filename(ref, allow_unicode_slash) ==
    IF allow_unicode_slash THEN Replace(ref, "/", FullwidthSlash)
    ELSE Replace(ref, "/", "-")

-----------------------------------------------------------------------------
(* renamer.py: the three patterns *)

\* the literal lit at index i of s, under re.IGNORECASE
LitAt(s, i, lit) ==
    /\ i >= 1
    /\ i + Len(lit) - 1 <= Len(s)
    /\ \A k \in 1..Len(lit) : LowerChar(s[i + k - 1]) = LowerChar(lit[k])

\* \d{n} at index i of s
DigitsAt(s, i, n) ==
    /\ i + n - 1 <= Len(s)
    /\ \A k \in 0..(n - 1) : IsDigit(s[i + k])

\* RE_INV_STRICT matches at index i: \bINV/\d{4}/\d{2}/\d{4}\b (16 characters)
InvStrictAt(s, i) ==
    /\ i = 1 \/ ~IsWordChar(s[i - 1])
    /\ LitAt(s, i, <<"I", "N", "V", "/">>)
    /\ DigitsAt(s, i + 4, 4)
    /\ LitAt(s, i + 8, <<"/">>)
    /\ DigitsAt(s, i + 9, 2)
    /\ LitAt(s, i + 11, <<"/">>)
    /\ DigitsAt(s, i + 12, 4)
    /\ i + 16 > Len(s) \/ ~IsWordChar(s[i + 16])

\* RE_INV_STRICT.search(s): group(0) of the leftmost match, or None
RE_INV_STRICT_search(s) ==
    LET hits == {i \in 1..Len(s) : InvStrictAt(s, i)}
    IN IF hits = {} THEN None
       ELSE LET i == CHOOSE h \in hits : \A g \in hits : h <= g
            IN SubSeq(s, i, i + 15)

SeriWords ==
    << <<"K", "o", "d", "e">>, <<"d", "a", "n">>, <<"N", "o", "m", "o", "r">>,
       <<"S", "e", "r", "i">>, <<"F", "a", "k", "t", "u", "r">>,
       <<"P", "a", "j", "a", "k">> >>

\* Kode\s+dan\s+...\s+Pajak from index i of s: the index after "Pajak", or 0
\* when the words do not match (k is the word to match next)
RECURSIVE SeriLabelEnd(_, _, _)
SeriLabelEnd(s, i, k) ==
    IF ~LitAt(s, i, SeriWords[k]) THEN 0
    ELSE LET j == i + Len(SeriWords[k])
         IN IF k = Len(SeriWords) THEN j
            ELSE IF WsRun(s, j) = 0 THEN 0
            ELSE SeriLabelEnd(s, j + WsRun(s, j), k + 1)

\* [\d\.\-\s]
IsSeriChar(c) ==
    IsDigit(c) \/ c \in {".", "-"} \/ c \in Whitespace

\* RE_SERI matched with its first character at index i: group "seri", or None.
\* After the label come \s*, ":", \s* and the greedy group; the greedy \s*
\* before the group takes the leading whitespace and gives one character
\* back only when nothing else is left for the group.
SeriGroupAt(s, i) ==
    LET e == SeriLabelEnd(s, i, 1)
        c == e + WsRun(s, e)
    IN IF e = 0 \/ c > Len(s) \/ s[c] # ":" THEN None
       ELSE LET stops == {j \in (c + 1)..Len(s) : ~IsSeriChar(s[j])}
                last == IF stops = {} THEN Len(s)
                        ELSE (CHOOSE j \in stops : \A k \in stops : j <= k) - 1
                first == c + 1 + WsRun(s, c + 1)
            IN IF last < c + 1 THEN None
               ELSE IF first <= last THEN SubSeq(s, first, last)
               ELSE SubSeq(s, last, last)

\* RE_SERI.search(s): group "seri" of the leftmost match, or None
RE_SERI_search(s) ==
    LET hits == {i \in 1..Len(s) : SeriGroupAt(s, i) # None}
    IN IF hits = {} THEN None
       ELSE SeriGroupAt(s, CHOOSE h \in hits : \A g \in hits : h <= g)

\* [^)\n\r]
IsRefChar(c) ==
    c \notin {")", "\n", "\r"}

\* \s*(?P<ref>[^)\n\r]+?)\s*\)? from index q of s: the greedy \s* takes the
\* whitespace run and gives characters back one at a time until the lazy
\* group finds its one character; the rest of the pattern matches empty, so
\* the lazy group never grows.  The group, or None.
RefTailAt(s, q) ==
    LET w == WsRun(s, q)
        ok == {k \in 0..w : q + k <= Len(s) /\ IsRefChar(s[q + k])}
    IN IF ok = {} THEN None
       ELSE LET k == CHOOSE a \in ok : \A b \in ok : a >= b
            IN <<s[q + k]>>

\* RE_REF with "Referensi" at index p of s: group "ref", or None.  The
\* optional colon is taken first and given back when the rest fails.
RefGroupAt(s, p) ==
    IF ~LitAt(s, p, <<"R", "e", "f", "e", "r", "e", "n", "s", "i">>) THEN None
    ELSE LET a == p + 9
             colon == a <= Len(s) /\ s[a] = ":"
         IN IF colon /\ RefTailAt(s, a + 1) # None THEN RefTailAt(s, a + 1)
            ELSE RefTailAt(s, a)

\* RE_REF.search(s): group "ref" of the leftmost match, or None.  The prefix
\* \(?\s* cannot reach over a label, so the leftmost match holds the leftmost
\* label after which the rest of the pattern matches.
RE_REF_search(s) ==
    LET hits == {p \in 1..Len(s) : RefGroupAt(s, p) # None}
    IN IF hits = {} THEN None
       ELSE RefGroupAt(s, CHOOSE h \in hits : \A g \in hits : h <= g)

-----------------------------------------------------------------------------
(* renamer.py: parse_pdf_fields and build_new_name *)

\* "\n".join(chunks), with chunks = [p.extract_text() or "" for p in pages]
RECURSIVE JoinPages(_)
JoinPages(pages) ==
    IF pages = <<>> THEN <<>>
    ELSE LET chunk == IF Truthy(Head(pages)) THEN Head(pages) ELSE <<>>
         IN IF Len(pages) = 1 THEN chunk
            ELSE chunk \o <<"\n">> \o JoinPages(Tail(pages))

\* lines 62-70 of parse_pdf_fields
ParseSeri(norm) ==
    LET m_seri == RE_SERI_search(norm)
    IN IF m_seri = None THEN None
       ELSE LET kept == SelectSeq(m_seri, LAMBDA c : IsDigit(c) \/ c \in {".", "-"})
            IN _sanitize(Remove(Remove(kept, "."), "-"))

\* lines 72-87 of parse_pdf_fields
ParseRef(norm) ==
    LET m_inv == RE_INV_STRICT_search(norm)
        m_ref == RE_REF_search(norm)
        candidate == _sanitize(m_ref)
        inner == RE_INV_STRICT_search(candidate)
        ref == IF m_inv # None THEN Upper(m_inv)
               ELSE IF m_ref = None THEN None
               ELSE IF inner # None THEN Upper(inner)
               ELSE candidate
    IN IF Truthy(ref) THEN _invoice_ref_to_filename(_sanitize(ref), TRUE)
       ELSE ref

\* file_bytes is [size, readable, pages]: PdfReader and extract_text raise
\* unless the bytes are a readable PDF
parse_pdf_fields(file_bytes) ==
    IF ~file_bytes.readable THEN <<None, None>>
    ELSE LET raw == JoinPages(file_bytes.pages)
             norm == _normalize_for_search(raw)
         IN <<OrNone(ParseRef(norm)), OrNone(ParseSeri(norm))>>

build_new_name(ref, seri, pretty_slash) ==
    IF ~Truthy(ref) \/ ~Truthy(seri) THEN None
    ELSE LET ref_disp == _invoice_ref_to_filename(_sanitize(ref), pretty_slash)
             base == _sanitize(ref_disp \o <<" ", "-", " ">> \o seri)
         IN IF base # <<>> THEN base \o <<".", "p", "d", "f">> ELSE None

-----------------------------------------------------------------------------
(* The inputs *)

\* all strings over alphabet of length at most n
Strings(alphabet, n) ==
    UNION {[1..k -> alphabet] : k \in 0..n}

EmptyBytes ==
    [size |-> 0, readable |-> FALSE, pages |-> <<>>]

CorruptBytes ==
    [size |-> 1, readable |-> FALSE, pages |-> <<>>]

Pdf(pages) ==
    [size |-> 1, readable |-> TRUE, pages |-> pages]

\* "Kode dan Nomor Seri Faktur Pajak: 123.456-789"
SeriText ==
    <<"K", "o", "d", "e", " ", "d", "a", "n", " ", "N", "o", "m", "o", "r", " ",
      "S", "e", "r", "i", " ", "F", "a", "k", "t", "u", "r", " ",
      "P", "a", "j", "a", "k", ":", " ",
      "1", "2", "3", ".", "4", "5", "6", "-", "7", "8", "9">>

\* "(Referensi: INV/2025/09/0654)"
RefText ==
    <<"(", "R", "e", "f", "e", "r", "e", "n", "s", "i", ":", " ",
      "I", "N", "V", "/", "2", "0", "2", "5", "/", "0", "9", "/",
      "0", "6", "5", "4", ")">>

\* "INV / 2025 /\n10 / 0012"
SpacedInvText ==
    <<"I", "N", "V", " ", "/", " ", "2", "0", "2", "5", " ", "/", "\n",
      "1", "0", " ", "/", " ", "0", "0", "1", "2">>

\* "inv/2025/09/0654"
LowerInvText ==
    <<"i", "n", "v", "/", "2", "0", "2", "5", "/", "0", "9", "/", "0", "6", "5", "4">>

\* "XINV/2025/09/0654"
GluedInvText ==
    <<"X", "I", "N", "V", "/", "2", "0", "2", "5", "/", "0", "9", "/", "0", "6", "5", "4">>

\* "Faktur Pajak"
PlainText ==
    <<"F", "a", "k", "t", "u", "r", " ", "P", "a", "j", "a", "k">>

\* the PDF contents of the batches
BatchData ==
    { Pdf(<<SeriText \o <<" ">> \o RefText>>),
      Pdf(<<SeriText, SpacedInvText>>),
      Pdf(<<None, PlainText>>),
      Pdf(<<SeriText>>),
      Pdf(<<RefText>>),
      CorruptBytes,
      EmptyBytes }

\* the records of the batches: a.pdf with every content, and B.PDF, c.txt
\* and a record without a filename
FileStorages ==
    {[filename |-> <<"a", ".", "p", "d", "f">>, data |-> d] : d \in BatchData}
    \cup {[filename |-> <<"B", ".", "P", "D", "F">>,
           data |-> Pdf(<<SeriText \o <<" ">> \o RefText>>)]}
    \cup {[filename |-> <<"c", ".", "t", "x", "t">>, data |-> d] :
            d \in {Pdf(<<SeriText \o <<" ">> \o RefText>>), EmptyBytes}}
    \cup {[filename |-> None, data |-> Pdf(<<SeriText \o <<" ">> \o RefText>>)]}

SanitizeAlphabet ==
    {"a", " ", "/", "\t"}

RefAlphabet ==
    {"A", "/", " ", "1"}

SeriAlphabet ==
    {"1", " ", "/"}

TailAlphabet ==
    {"P", "O", " ", ")"}

\* "Referensi: " and "(referensi "
RefLabels ==
    { <<"R", "e", "f", "e", "r", "e", "n", "s", "i", ":", " ">>,
      <<"(", "r", "e", "f", "e", "r", "e", "n", "s", "i", " ">> }

\* the texts given to parse_pdf_fields: with and without the serial, then a
\* reference in one of its forms or a label followed by a short tail
ParseTexts ==
    {seri \o ref :
        seri \in {<<>>, SeriText \o <<" ">>},
        ref \in {<<>>, RefText, SpacedInvText, LowerInvText, GluedInvText, PlainText}
                \cup {label \o tail : label \in RefLabels,
                                      tail \in Strings(TailAlphabet, MaxTail)}}

ParseData ==
    {CorruptBytes} \cup {Pdf(<<t>>) : t \in ParseTexts}

-----------------------------------------------------------------------------
(* renamer.py: process_files *)

\* A log line keeps the parts of its f-string: the glyph, the fixed text,
\* the original name, and the final name of a renamed file (None elsewhere).
\* CROSS, CHECK and WARNING are the three glyphs.
LogLine(glyph, text, fname, final) ==
    [glyph |-> glyph, text |-> text, fname |-> fname, final |-> final]

\* fs.filename or ""
FilenameOf(fs) ==
    IF Truthy(fs.filename) THEN fs.filename ELSE <<>>

\* fname.lower().endswith(".pdf")
IsPdfName(fname) ==
    EndsWith(Lower(fname), <<".", "p", "d", "f">>)

\* not data
NotData_isNone(data) ==
    FALSE

NotData(data) ==
    data.size = 0

\* os.path.splitext(p)[0]: the extension starts at the last dot after the
\* last "/", unless only dots come before it
SplitextStem(p) ==
    LET seps == {i \in 1..Len(p) : p[i] = "/"}
        dots == {i \in 1..Len(p) : p[i] = "."}
        sepIndex == IF seps = {} THEN 0 ELSE CHOOSE i \in seps : \A j \in seps : i >= j
        dotIndex == IF dots = {} THEN 0 ELSE CHOOSE i \in dots : \A j \in dots : i >= j
    IN IF dotIndex > sepIndex /\ \E k \in (sepIndex + 1)..(dotIndex - 1) : p[k] # "."
       THEN SubSeq(p, 1, dotIndex - 1)
       ELSE p

\* f"{stem} ({i}).pdf"
Suffixed(new_name, i) ==
    SplitextStem(new_name) \o <<" ", "(">> \o Str(i) \o <<")", ".", "p", "d", "f">>

\* the while loop of lines 126-131, entered with final and i
RECURSIVE WhileInExisting(_, _, _, _)
WhileInExisting(new_name, existing, final, i) ==
    IF final \in existing
    THEN WhileInExisting(new_name, existing, Suffixed(new_name, i), i + 1)
    ELSE final

UniqueName_ifOnce(new_name, outs) ==
    LET existing == {outs[k][1] : k \in 1..Len(outs)}
    IN IF new_name \in existing THEN Suffixed(new_name, 1) ELSE new_name

\* lines 125-131: the final name of new_name against the names in outputs
UniqueName(new_name, outs) ==
    LET existing == {outs[k][1] : k \in 1..Len(outs)}
    IN WhileInExisting(new_name, existing, new_name, 1)

AppendOutput_always(outs, final, data, dry) ==
    Append(outs, <<final, data>>)

\* lines 134-135
AppendOutput(outs, final, data, dry) ==
    IF ~dry THEN Append(outs, <<final, data>>) ELSE outs

WarningText_refFirst(ref, seri) ==
    IF ~Truthy(ref) THEN "Referensi tidak ditemukan."
    ELSE IF ~Truthy(ref) /\ ~Truthy(seri) THEN "Referensi & Nomor Seri tidak ditemukan."
    ELSE "Nomor Seri Faktur Pajak tidak ditemukan."

\* lines 137-142: the text of the warning
WarningText(ref, seri) ==
    IF ~Truthy(ref) /\ ~Truthy(seri) THEN "Referensi & Nomor Seri tidak ditemukan."
    ELSE IF ~Truthy(ref) THEN "Referensi tidak ditemukan."
    ELSE "Nomor Seri Faktur Pajak tidak ditemukan."

\* parse_pdf_fields is a pure function: its values on the contents of the
\* batches, computed once
ParsedBatchData ==
    [d \in BatchData |-> parse_pdf_fields(d)]

\* lines 133-135: the line and the pair of a renamed file
Renamed(fname, data, final, res, outs, ext, dry) ==
    [results |-> Append(res, LogLine("CHECK", "->", fname, final)),
     outputs |-> AppendOutput(outs, final, data, dry),
     extracted |-> Append(ext, data)]

\* lines 123-142: the two branches on new_name
Outcome(fname, data, ref, seri, new_name, res, outs, ext, dry) ==
    IF Truthy(new_name)
    THEN Renamed(fname, data, UniqueName(new_name, outs), res, outs, ext, dry)
    ELSE [results |-> Append(res, LogLine("WARNING", WarningText(ref, seri), fname, None)),
          outputs |-> outs,
          extracted |-> Append(ext, data)]

\* line 121: new_name = build_new_name(ref, seri, pretty_slash=True)
Composed(fname, data, fields, res, outs, ext, dry) ==
    Outcome(fname, data, fields[1], fields[2],
            build_new_name(fields[1], fields[2], TRUE), res, outs, ext, dry)

\* lines 120-142: the body of the loop for a record that passed both checks;
\* line 120 is ref, seri = parse_pdf_fields(data)
Accepted(fname, data, res, outs, ext, dry) ==
    Composed(fname, data, ParsedBatchData[data], res, outs, ext, dry)

LoopBody_silentSkip(fs, res, outs, ext, dry) ==
    LET fname == FilenameOf(fs)
    IN IF ~IsPdfName(fname)
       THEN [results |-> res, outputs |-> outs, extracted |-> ext]
       ELSE IF NotData(fs.data)
       THEN [results |-> Append(res, LogLine("CROSS", "File kosong:", fname, None)),
             outputs |-> outs, extracted |-> ext]
       ELSE Accepted(fname, fs.data, res, outs, ext, dry)

\* lines 109-142: one pass of the for loop, on the record fs
LoopBody(fs, res, outs, ext, dry) ==
    LET fname == FilenameOf(fs)
    IN IF ~IsPdfName(fname)
       THEN [results |-> Append(res, LogLine("CROSS", "Bukan PDF:", fname, None)),
             outputs |-> outs, extracted |-> ext]
       ELSE IF NotData(fs.data)
       THEN [results |-> Append(res, LogLine("CROSS", "File kosong:", fname, None)),
             outputs |-> outs, extracted |-> ext]
       ELSE Accepted(fname, fs.data, res, outs, ext, dry)

-----------------------------------------------------------------------------
(* The batch: process_files on one input list *)

Idle ==
    /\ s_in = <<>> /\ s_once = None /\ s_twice = None
    /\ nb_ref = None /\ nb_seri = None /\ nb_pretty = TRUE /\ nb_out = None
    /\ pf_data = EmptyBytes /\ pf_out = <<None, None>> /\ pf_name = None

IdleBatch ==
    /\ file_storages = <<>> /\ dry_run = FALSE /\ pos = 0
    /\ results = <<>> /\ outputs = <<>> /\ extracted = <<>>

Init ==
    /\ pc = "loop"
    /\ file_storages \in UNION {[1..n -> FileStorages] : n \in 0..MaxFiles}
    /\ dry_run \in BOOLEAN
    /\ pos = 0
    /\ results = <<>>
    /\ outputs = <<>>
    /\ extracted = <<>>
    /\ Idle

\* one pass of the for loop
Iterate ==
    /\ pc = "loop"
    /\ pos < Len(file_storages)
    /\ \E st \in {LoopBody(file_storages[pos + 1], results, outputs, extracted, dry_run)} :
          /\ results' = st.results
          /\ outputs' = st.outputs
          /\ extracted' = st.extracted
    /\ pos' = pos + 1
    /\ UNCHANGED <<pc, file_storages, dry_run, s_in, s_once, s_twice, nb_ref,
                   nb_seri, nb_pretty, nb_out, pf_data, pf_out, pf_name>>

\* return results, outputs
Return ==
    /\ pc = "loop"
    /\ pos = Len(file_storages)
    /\ pc' = "returned"
    /\ UNCHANGED <<file_storages, dry_run, pos, results, outputs, extracted,
                   s_in, s_once, s_twice, nb_ref, nb_seri, nb_pretty, nb_out,
                   pf_data, pf_out, pf_name>>

Next ==
    \/ Iterate
    \/ Return

Spec ==
    Init /\ [][Next]_vars

-----------------------------------------------------------------------------
(* _sanitize applied once and twice *)

InitSanitize ==
    /\ pc = "sanitize"
    /\ s_in \in Strings(SanitizeAlphabet, MaxLen)
    /\ s_once = None /\ s_twice = None
    /\ nb_ref = None /\ nb_seri = None /\ nb_pretty = TRUE /\ nb_out = None
    /\ pf_data = EmptyBytes /\ pf_out = <<None, None>> /\ pf_name = None
    /\ IdleBatch

SanitizeOnce ==
    /\ pc = "sanitize"
    /\ s_once' = _sanitize(s_in)
    /\ pc' = "sanitized"
    /\ UNCHANGED <<file_storages, dry_run, pos, results, outputs, extracted,
                   s_in, s_twice, nb_ref, nb_seri, nb_pretty, nb_out,
                   pf_data, pf_out, pf_name>>

SanitizeTwice ==
    /\ pc = "sanitized"
    /\ s_twice' = _sanitize(s_once)
    /\ pc' = "sanitized_twice"
    /\ UNCHANGED <<file_storages, dry_run, pos, results, outputs, extracted,
                   s_in, s_once, nb_ref, nb_seri, nb_pretty, nb_out,
                   pf_data, pf_out, pf_name>>

NextSanitize ==
    \/ SanitizeOnce
    \/ SanitizeTwice

SpecSanitize ==
    InitSanitize /\ [][NextSanitize]_vars

-----------------------------------------------------------------------------
(* build_new_name on arbitrary optional fields *)

InitName ==
    /\ pc = "build"
    /\ nb_ref \in {None} \cup Strings(RefAlphabet, MaxFieldLen)
    /\ nb_seri \in {None} \cup Strings(SeriAlphabet, MaxFieldLen)
    /\ nb_pretty \in BOOLEAN
    /\ nb_out = None
    /\ s_in = <<>> /\ s_once = None /\ s_twice = None
    /\ pf_data = EmptyBytes /\ pf_out = <<None, None>> /\ pf_name = None
    /\ IdleBatch

BuildNewName ==
    /\ pc = "build"
    /\ nb_out' = build_new_name(nb_ref, nb_seri, nb_pretty)
    /\ pc' = "built"
    /\ UNCHANGED <<file_storages, dry_run, pos, results, outputs, extracted,
                   s_in, s_once, s_twice, nb_ref, nb_seri, nb_pretty,
                   pf_data, pf_out, pf_name>>

NextName ==
    BuildNewName

SpecName ==
    InitName /\ [][NextName]_vars

-----------------------------------------------------------------------------
(* parse_pdf_fields, then build_new_name as process_files calls it *)

InitParse ==
    /\ pc = "parse"
    /\ pf_data \in ParseData
    /\ pf_out = <<None, None>>
    /\ pf_name = None
    /\ s_in = <<>> /\ s_once = None /\ s_twice = None
    /\ nb_ref = None /\ nb_seri = None /\ nb_pretty = TRUE /\ nb_out = None
    /\ IdleBatch

ParseFields ==
    /\ pc = "parse"
    /\ pf_out' = parse_pdf_fields(pf_data)
    /\ pc' = "parsed"
    /\ UNCHANGED <<file_storages, dry_run, pos, results, outputs, extracted,
                   s_in, s_once, s_twice, nb_ref, nb_seri, nb_pretty, nb_out,
                   pf_data, pf_name>>

ComposeName ==
    /\ pc = "parsed"
    /\ pf_name' = build_new_name(pf_out[1], pf_out[2], TRUE)
    /\ pc' = "composed"
    /\ UNCHANGED <<file_storages, dry_run, pos, results, outputs, extracted,
                   s_in, s_once, s_twice, nb_ref, nb_seri, nb_pretty, nb_out,
                   pf_data, pf_out>>

NextParse ==
    \/ ParseFields
    \/ ComposeName

SpecParse ==
    InitParse /\ [][NextParse]_vars

-----------------------------------------------------------------------------
(* The claims *)

\* C1: when the strict pattern INV/YYYY/MM/NNNN is found in the normalized
\* text, the reference returned by parse_pdf_fields is the match, uppercased,
\* with every "/" replaced by the full-width slash, and the name composed
\* from it is "<that reference> - <serial>.pdf".
C1_FullwidthReference ==
    (pc = "composed" /\ pf_data.readable) =>
        LET norm == _normalize_for_search(JoinPages(pf_data.pages))
            m == RE_INV_STRICT_search(norm)
            ref == Replace(Upper(m), "/", FullwidthSlash)
        IN m # None =>
            /\ pf_out[1] = ref
            /\ Truthy(pf_out[2]) =>
                 pf_name = ref \o <<" ", "-", " ">> \o pf_out[2] \o <<".", "p", "d", "f">>

\* C2: the log has one line per record the loop has done, the i-th line
\* carries the name of the i-th record and the glyph of that record's
\* outcome, and the returned log has one line per input record.
C2_OneLinePerRecord ==
    /\ Len(results) = pos
    /\ pc = "returned" => Len(results) = Len(file_storages)
    /\ \A i \in 1..pos :
          LET fs == file_storages[i]
              fname == IF Truthy(fs.filename) THEN fs.filename ELSE <<>>
              rejected == \/ ~EndsWith(Lower(fname), <<".", "p", "d", "f">>)
                          \/ fs.data.size = 0
              fields == ParsedBatchData[fs.data]
              named == build_new_name(fields[1], fields[2], TRUE) # None
          IN /\ results[i].fname = fname
             /\ results[i].glyph = IF rejected THEN "CROSS"
                                   ELSE IF named THEN "CHECK"
                                   ELSE "WARNING"

\* three records with the three kinds of outcome have been logged and returned
C2_Witness ==
    /\ pc = "returned"
    /\ Len(results) >= 3
    /\ {results[i].glyph : i \in 1..3} = {"CROSS", "WARNING", "CHECK"}

\* C3: after any prefix of a batch the filenames in outputs are pairwise
\* distinct.
C3_DistinctNames ==
    \A i, j \in 1..Len(outputs) : i # j => outputs[i][1] # outputs[j][1]

\* three records composed the same name; the second and third were suffixed
C3_Witness ==
    /\ Len(outputs) >= 3
    /\ outputs[2][1] = Suffixed(outputs[1][1], 1)
    /\ outputs[3][1] = Suffixed(outputs[1][1], 2)

\* C4: for either value of dry_run, among the records that compose the same
\* name S.pdf the first is logged with S.pdf and the k-th after it with
\* "S (k).pdf".
C4_CollisionSuffixes ==
    \A i \in 1..pos :
        results[i].glyph = "CHECK" =>
            LET composed(n) ==
                    build_new_name(ParsedBatchData[file_storages[n].data][1],
                                   ParsedBatchData[file_storages[n].data][2], TRUE)
                k == Cardinality({j \in 1..(i - 1) :
                                    /\ results[j].glyph = "CHECK"
                                    /\ composed(j) = composed(i)})
            IN results[i].final = IF k = 0 THEN composed(i)
                                  ELSE SplitextStem(composed(i)) \o <<" ", "(">> \o Str(k)
                                       \o <<")", ".", "p", "d", "f">>

\* C5: _sanitize(_sanitize(x)) = _sanitize(x).
C5_Idempotent ==
    pc = "sanitized_twice" => s_twice = s_once

\* C6: build_new_name returns a name exactly when both fields are present
\* and non-empty after sanitization, and a name it returns ends in ".pdf".
C6_NameIffBothPresent ==
    pc = "built" =>
        /\ nb_out # None <=>
              /\ Truthy(nb_ref) /\ Truthy(nb_seri)
              /\ _sanitize(nb_ref) # <<>>
              /\ _sanitize(nb_seri) # <<>>
        /\ nb_out # None => EndsWith(nb_out, <<".", "p", "d", "f">>)

\* C7: without a strict match in the normalized text, the reference is made
\* from the whole text after the first label "Referensi" (optional colon,
\* whitespace) up to the next ")", newline or end: that text sanitized, or
\* the strict pattern inside it uppercased.
C7_WholeCapture ==
    (pc = "parsed" /\ pf_data.readable) =>
        LET norm == _normalize_for_search(JoinPages(pf_data.pages))
            labels == {p \in 1..Len(norm) :
                         LitAt(norm, p, <<"R", "e", "f", "e", "r", "e", "n", "s", "i">>)}
            p == CHOOSE a \in labels : \A b \in labels : a <= b
            c == IF p + 9 <= Len(norm) /\ norm[p + 9] = ":" THEN p + 10 ELSE p + 9
            q == c + WsRun(norm, c)
            stops == {j \in q..Len(norm) : norm[j] \in {")", "\n", "\r"}}
            e == IF stops = {} THEN Len(norm)
                 ELSE (CHOOSE a \in stops : \A b \in stops : a <= b) - 1
            candidate == _sanitize(SubSeq(norm, q, e))
            inner == RE_INV_STRICT_search(candidate)
            ref == IF inner # None THEN Upper(inner) ELSE candidate
        IN (RE_INV_STRICT_search(norm) = None /\ labels # {} /\ q <= e) =>
              pf_out[1] = OrNone(_invoice_ref_to_filename(_sanitize(ref), TRUE))

\* C8: a pass of the loop on a record whose name does not end in ".pdf"
\* (whatever the case) or whose content is empty appends the one line
\* "Bukan PDF" (the name is checked first) or "File kosong", extracts
\* nothing, leaves outputs alone and goes on with the loop, which returns
\* only after the last record.
C8_RejectedRecords ==
    /\ [][(pos' = pos + 1) =>
            LET fs == file_storages[pos + 1]
                fname == IF Truthy(fs.filename) THEN fs.filename ELSE <<>>
                notPdf == ~EndsWith(Lower(fname), <<".", "p", "d", "f">>)
                empty == fs.data.size = 0
            IN (notPdf \/ empty) =>
                  /\ results' = Append(results,
                                   [glyph |-> "CROSS",
                                    text |-> IF notPdf THEN "Bukan PDF:" ELSE "File kosong:",
                                    fname |-> fname, final |-> None])
                  /\ extracted' = extracted
                  /\ outputs' = outputs
                  /\ pc' = "loop"]_vars
    /\ [](pc = "returned" => pos = Len(file_storages))

\* both kinds of rejected record were logged, and the record after them was
\* renamed
C8_Witness ==
    /\ ~dry_run
    /\ Len(results) >= 3
    /\ results[1].text = "Bukan PDF:"
    /\ results[2].text = "File kosong:"
    /\ results[3].glyph = "CHECK"
    /\ Len(outputs) = 1
    /\ Len(extracted) = 1

\* C9: for bytes that PdfReader cannot read parse_pdf_fields returns
\* (None, None), and a pass of the loop on such a record (named *.pdf, not
\* empty) appends the warning "Referensi & Nomor Seri tidak ditemukan.",
\* leaves outputs as it is and goes on with the loop.
C9_ExtractionFailure ==
    [][(pos' = pos + 1) =>
          LET fs == file_storages[pos + 1]
              fname == IF Truthy(fs.filename) THEN fs.filename ELSE <<>>
          IN (/\ EndsWith(Lower(fname), <<".", "p", "d", "f">>)
              /\ fs.data.size # 0
              /\ ~fs.data.readable) =>
                /\ parse_pdf_fields(fs.data) = <<None, None>>
                /\ results' = Append(results,
                                 [glyph |-> "WARNING",
                                  text |-> "Referensi & Nomor Seri tidak ditemukan.",
                                  fname |-> fname, final |-> None])
                /\ outputs' = outputs
                /\ pc' = "loop"]_vars

\* an unreadable PDF came after a renamed file and before another record
C9_Witness ==
    /\ ~dry_run
    /\ pos >= 3
    /\ results[1].glyph = "CHECK"
    /\ file_storages[2] = [filename |-> <<"a", ".", "p", "d", "f">>, data |-> CorruptBytes]
    /\ results[2].text = "Referensi & Nomor Seri tidak ditemukan."
    /\ results[3].glyph = "CHECK"
    /\ Len(outputs) = 2

\* C10: outputs is empty in a dry run; otherwise it is, in input order, the
\* pairs (final name of the line, content of the record) of the records
\* logged with the check mark.
C10_Outputs ==
    LET ok == SelectSeq([i \in 1..Len(results) |-> i],
                        LAMBDA i : results[i].glyph = "CHECK")
    IN IF dry_run THEN outputs = <<>>
       ELSE outputs = [k \in 1..Len(ok) |->
                          <<results[ok[k]].final, file_storages[ok[k]].data>>]

\* a returned batch with two renamed files and a record that gave no pair
C10_Witness ==
    /\ pc = "returned"
    /\ ~dry_run
    /\ Len(outputs) = 2
    /\ Len(results) = 3
    /\ results[2].glyph # "CHECK"

====
